---- MODULE Spec2Model ----
(***************************************************************************)
(* Model of golly's runtime bootstrap (src/command/command.go): the       *)
(* directory-scoped process lock (GetLock / ReleaseLock), the exit-handler *)
(* chain (RegisterExitHandler / RunExitHandlers / Exit / Error /           *)
(* StandardError), the signal dispatcher (handleSignals), InitProcess with  *)
(* its PID-file goroutine, GetCPUCount, and GetOutput with its child.      *)
(*                                                                         *)
(* Several processes share one run directory and one name.  Every process  *)
(* has a main execution context that calls the exported functions, the     *)
(* dispatcher goroutine started by init(), and the goroutine InitProcess   *)
(* starts for CreatePidFile.  A step of the model is one system call or one *)
(* access to a package-level variable, so every interleaving of the        *)
(* goroutines and of the processes is explored.                            *)
(*                                                                         *)
(* Environment assumptions: the run directory exists and is writable, so   *)
(* os.OpenFile(O_CREATE) succeeds and os.Link / os.Remove fail only for    *)
(* the reasons the filesystem state gives (target exists, source or path   *)
(* missing); log.Wait, log.Error and log.StandardError return; registered  *)
(* exit handlers return.  The initial state is the one init() leaves once  *)
(* the dispatcher has subscribed to signals.  When a process ends, its      *)
(* memory is gone: its variables are reset and only status and exit code,  *)
(* and the files it left, remain.                                           *)
(***************************************************************************)
EXTENDS Integers, Sequences, FiniteSets, TLC

\* ------------------------------------------------------------------ bounds
\* Exit handlers one process registers.
MaxHandlers == 2
\* Signals sent to one process.
MaxSignals == 1
\* Signals sent to the process whose dispatcher is studied on its own.
MaxBurst == 2
\* Signals of one kind sent in a row to a process that is slow to take them.
MaxFlood == 101
\* Handler invocations after which the application starts no further run of
\* the chain by calling RunExitHandlers itself.
MaxStarted == 3
\* Characters the sysctl command prints, and lines the cat command prints.
MaxOutputLen == 3
MaxLines == 2
\* Bytes the pipe between a child and GetOutput holds (the capacity is the
\* operating system's), and bytes a child writes to its standard output.
PipeCap == 2
MaxChildOutput == 3

\* --------------------------------------------------------------- constants
\* Capacity of the dispatcher's notifier channel.
NotifierCap == 100

\* Process ids (os.Getpid), as the decimal text "%d" prints.
Procs == {"101", "102"}
\* Signals a process can be sent; only the first two have default handlers.
SIGINT == "SIGINT"
SIGTERM == "SIGTERM"
SIGHUP == "SIGHUP"
Signals == {SIGINT, SIGTERM, SIGHUP}
\* The one (directory, name) pair all processes contend for.
Directory == "run"
Name == "svc"
\* Codes the application passes to Exit.
ExitCodes == {0, 7}

Ctxs == {"main", "disp"}

VARIABLES
    fs,            \* the run directory: path -> Absent, or the file's content/inode
    status,        \* per process: "running", "exited" (os.Exit), "crashed"
    exitCode,      \* per process: the code it ended with (0 while running)
    exitHandlers,  \* per process: the package variable exitHandlers
    SignalHandlers,\* per process: the package variable SignalHandlers
    notifier,      \* per process: the dispatcher's buffered channel
    ctx,           \* per process and context: program counter and locals
    pidpc,         \* per process: position of the CreatePidFile goroutine
    locks,         \* per process: the Lock values GetLock has returned to it
    logs,          \* per process: the log package's state (recorded, pending)
    holds,         \* history: the process acquired the lock and has not released
    started,       \* history: per process, handler indices in order of invocation
    finished,      \* history: per process, handler indices in order of return
    lateReg,       \* history: a registration overlapped or followed a termination
    triggers,      \* history: per process, how often Exit has been entered
    nsig,          \* per process: signals sent so far
    cpu,           \* GetCPUCount: the environment it runs in and its result
    cmd            \* GetOutput: the call, its pipe, the child and the result

vars == <<fs, status, exitCode, exitHandlers, SignalHandlers, notifier, ctx,
          pidpc, locks, logs, holds, started, finished, lateReg, triggers, nsig, cpu,
          cmd>>

\* -------------------------------------------------------------- filesystem
Absent == "absent"

\* path.Join(directory, file)
PathJoin(dir, file) == dir \o "/" \o file
\* path.Join(directory, fmt.Sprintf("%s-%d.lock", name, os.Getpid()))
LockFilePath(dir, name, pid) == PathJoin(dir, name \o "-" \o pid \o ".lock")
\* path.Join(directory, name+".lock")
LinkPath(dir, name) == PathJoin(dir, name \o ".lock")
\* filepath.Join(runPath, name+".pid")
PidFilePath(dir, name) == PathJoin(dir, name \o ".pid")

Paths == {LockFilePath(Directory, Name, p) : p \in Procs}
            \cup {LinkPath(Directory, Name), PidFilePath(Directory, Name)}

\* The inode a process's PID-qualified lock file gets when it is created.
Inode(pid) == "inode-" \o pid

\* os.OpenFile(path, O_CREATE|O_WRONLY, 0666) followed by Close: creates the
\* file with content `fresh` when it is missing, leaves an existing file as
\* it is (no O_TRUNC, no O_EXCL).
OsOpenCreate(f, path, fresh) ==
    [fs |-> IF f[path] = Absent THEN [f EXCEPT ![path] = fresh] ELSE f,
     err |-> FALSE]

\* os.Link(old, new): atomic; fails when old is missing or new exists.
OsLink(f, old, new) ==
    IF f[old] # Absent /\ f[new] = Absent
    THEN [fs |-> [f EXCEPT ![new] = f[old]], err |-> FALSE]
    ELSE [fs |-> f, err |-> TRUE]

\* os.Remove(path): fails when the path is missing.
OsRemove(f, path) ==
    IF f[path] # Absent
    THEN [fs |-> [f EXCEPT ![path] = Absent], err |-> FALSE]
    ELSE [fs |-> f, err |-> TRUE]

\* fmt.Fprintf(pidFile, "%d", os.Getpid()) on the file opened without O_TRUNC.
OsWritePid(f, path, pid) ==
    IF f[path] # Absent THEN [f EXCEPT ![path] = pid] ELSE f


\* -------------------------------------------------------------------- Lock
\* The Lock GetLock builds: the composite literal sets link and file only, so
\* acquired keeps Go's zero value.
NewLock(link, file) == [link |-> link, file |-> file, acquired |-> FALSE]

\* A failed GetLock that removed the stable link instead of its own file.
RemoveStableLink(f, file, link) == OsRemove(f, link).fs

\* GetLock, line 167: the link failed, os.Remove(file), result discarded.
RemoveOwnFile(f, file, link) == OsRemove(f, file).fs

\* Lock.ReleaseLock, line 173: os.Remove(lock.file), result discarded.
RemoveLockFile(f, lock) == OsRemove(f, lock.file).fs

\* A ReleaseLock that left the stable link in place.
KeepLockLink(f, lock) == f

\* Lock.ReleaseLock, line 174: os.Remove(lock.link), result discarded.
RemoveLockLink(f, lock) == OsRemove(f, lock.link).fs

\* Lock.ReleaseLock as a function of the filesystem: both removals in order;
\* the method returns nothing, so it reports no error.
ReleaseLock(f, lock) ==
    [fs |-> RemoveLockLink(RemoveLockFile(f, lock), lock), err |-> FALSE]

\* --------------------------------------------------------------- contexts
\* Locals of one execution context.  op is the exported call in progress;
\* code and via belong to Exit; snap and i are the slice and index of
\* RunExitHandlers' range loop; base is the slice append read; seen is the
\* chain length when the dispatcher took the signal it is handling.
IdleFrame ==
    [pc |-> "idle", op |-> "none", code |-> 0, via |-> "none", snap |-> <<>>,
     i |-> 0, base |-> <<>>, flushed |-> FALSE, seen |-> 0]

StartCtx == [c \in Ctxs |-> IF c = "disp" THEN [IdleFrame EXCEPT !.pc = "recv"]
                                         ELSE IdleFrame]
DeadCtx == [c \in Ctxs |-> [IdleFrame EXCEPT !.pc = "dead"]]

ExitPcs == {"x_flush", "x_range", "x_call", "x_rel", "x_exit"}
StorePcs == {"gl_reg", "reg"}

Running(p) == status[p] = "running"
InExit(p, c) == ctx[p][c].pc \in ExitPcs
Terminating(p) == \E c \in Ctxs : InExit(p, c)
StorePending(p) == \E c \in Ctxs : ctx[p][c].pc \in StorePcs

\* Exit(code) is entered: log.Wait comes first.
EnterExit(frame, code, via) ==
    [frame EXCEPT !.pc = "x_flush", !.code = code, !.via = via]

\* Where the range loop of RunExitHandlers goes once index i is done.
AfterHandler(snap, i) == IF i + 1 > Len(snap) THEN "x_exit" ELSE "x_call"

\* A loop that visited the slice from its last element to its first.
RangeIndexReversed(snap, k) == Len(snap) - k + 1

\* The index the k-th iteration of the range loop visits (counting from 1).
RangeIndex(snap, k) == k

\* The handler index context c of process p is at in its range loop.
Visiting(p, c) == RangeIndex(ctx[p][c].snap, ctx[p][c].i)

\* Where the range loop starts on the slice it evaluated.
RangeStart(snap) == IF Len(snap) = 0 THEN "x_exit" ELSE "x_call"

\* append(exitHandlers, handler) on the slice value it read.
AppendHandler(base, handler) == Append(base, handler)

\* handler, found := SignalHandlers[sig]
LookupHandler(table, sig) == IF sig \in DOMAIN table THEN table[sig] ELSE "none"

\* The handlers init() installs: SIGINT and SIGTERM both call Exit(0).
DefaultSignalHandlers == [s \in {SIGINT, SIGTERM} |-> "exit0"]

\* The log package is not part of the sources: log.Error and
\* log.StandardError record the error as pending asynchronous output,
\* log.Wait flushes what is pending.
NoLogs == [recorded |-> FALSE, pending |-> FALSE]
LogError(l) == [recorded |-> TRUE, pending |-> TRUE]
LogWait(l) == [l EXCEPT !.pending = FALSE]

MyFile(p) == LockFilePath(Directory, Name, p)
TheLink == LinkPath(Directory, Name)
ThePidFile == PidFilePath(Directory, Name)

\* ------------------------------------------------------------------- Init
EmptyFs == [path \in Paths |-> Absent]

\* The environment of a run in which GetCPUCount is not exercised.
NoCpu == [platform |-> "other", err |-> FALSE, output |-> <<>>, count |-> 1,
          done |-> TRUE]

InitProcs ==
    /\ fs = EmptyFs
    /\ status = [p \in Procs |-> "running"]
    /\ exitCode = [p \in Procs |-> 0]
    /\ exitHandlers = [p \in Procs |-> <<>>]
    /\ SignalHandlers = [p \in Procs |-> DefaultSignalHandlers]
    /\ notifier = [p \in Procs |-> <<>>]
    /\ ctx = [p \in Procs |-> StartCtx]
    /\ pidpc = [p \in Procs |-> "off"]
    /\ locks = [p \in Procs |-> {}]
    /\ logs = [p \in Procs |-> NoLogs]
    /\ holds = [p \in Procs |-> FALSE]
    /\ started = [p \in Procs |-> <<>>]
    /\ finished = [p \in Procs |-> <<>>]
    /\ lateReg = [p \in Procs |-> FALSE]
    /\ triggers = [p \in Procs |-> 0]
    /\ nsig = [p \in Procs |-> 0]

\* The error value of a call: nil, or what &CommandError{args[0], args}
\* points to.
NilError == [nil |-> TRUE, Command |-> "", Args |-> <<>>]
CommandError(command, args) == [nil |-> FALSE, Command |-> command, Args |-> args]

\* A run in which GetOutput is not exercised.
NoCmd ==
    [pc |-> "done", args |-> <<>>, pipeFails |-> FALSE, spawnFails |-> FALSE,
     waitFails |-> FALSE, readFails |-> FALSE, size |-> 0, created |-> FALSE,
     rOpen |-> FALSE, wOpen |-> FALSE, child |-> "none", written |-> 0,
     pipe |-> <<>>, buffer |-> <<>>, waitErr |-> FALSE, failed |-> "none",
     output |-> <<>>, err |-> NilError]

Init == InitProcs /\ cpu = NoCpu /\ cmd = NoCmd

\* An os.Exit that returned to its caller: the process goes on, its
\* dispatcher back in its loop.
ReturnToLoop(p, how, code) ==
    /\ ctx' = [ctx EXCEPT ![p] = StartCtx]
    /\ UNCHANGED <<fs, status, exitCode, exitHandlers, SignalHandlers, notifier,
                   pidpc, locks, logs, holds, started, finished, lateReg,
                   triggers, nsig, cpu, cmd>>

\* The process ends with the given status and code: every goroutine stops
\* and the process's memory is gone.  The files stay as they are.
EndProcess(p, how, code) ==
    /\ status' = [status EXCEPT ![p] = how]
    /\ exitCode' = [exitCode EXCEPT ![p] = code]
    /\ exitHandlers' = [exitHandlers EXCEPT ![p] = <<>>]
    /\ notifier' = [notifier EXCEPT ![p] = <<>>]
    /\ ctx' = [ctx EXCEPT ![p] = DeadCtx]
    /\ pidpc' = [pidpc EXCEPT ![p] = "dead"]
    /\ locks' = [locks EXCEPT ![p] = {}]
    /\ logs' = [logs EXCEPT ![p] = NoLogs]
    /\ holds' = [holds EXCEPT ![p] = FALSE]
    /\ started' = [started EXCEPT ![p] = <<>>]
    /\ finished' = [finished EXCEPT ![p] = <<>>]
    /\ lateReg' = [lateReg EXCEPT ![p] = FALSE]
    /\ triggers' = [triggers EXCEPT ![p] = 0]
    /\ nsig' = [nsig EXCEPT ![p] = 0]
    /\ UNCHANGED <<fs, SignalHandlers, cpu, cmd>>

\* ------------------------------------------------------------ GetLock
CanCall(p) ==
    /\ Running(p)
    /\ ctx[p]["main"].pc = "idle"

\* GetLock, lines 152-157: build the PID-qualified name, create the file,
\* close it.  op tells a direct call from the one InitProcess makes
\* (line 197).
GetLockOpen(p, op) ==
    /\ CanCall(p)
    /\ Len(exitHandlers[p]) < MaxHandlers
    /\ op = "InitProcess" => pidpc[p] = "off"
    /\ fs' = OsOpenCreate(fs, MyFile(p), Inode(p)).fs
    /\ ctx' = [ctx EXCEPT ![p]["main"].pc = "gl_link", ![p]["main"].op = op]
    /\ UNCHANGED <<status, exitCode, exitHandlers, SignalHandlers, notifier,
                   pidpc, locks, logs, holds, started, finished, lateReg,
                   triggers, nsig, cpu, cmd>>

\* GetLock, lines 158-166: os.Link; on success the Lock is built and
\* RegisterExitHandler reads the chain it will append to; on failure the
\* else branch is next.
GetLockLink(p) ==
    /\ Running(p)
    /\ ctx[p]["main"].pc = "gl_link"
    /\ LET r == OsLink(fs, MyFile(p), TheLink) IN
         /\ fs' = r.fs
         /\ IF ~r.err
            THEN /\ locks' = [locks EXCEPT ![p] = @ \cup {NewLock(TheLink, MyFile(p))}]
                 /\ holds' = [holds EXCEPT ![p] = TRUE]
                 /\ ctx' = [ctx EXCEPT ![p]["main"].pc = "gl_reg",
                                       ![p]["main"].base = exitHandlers[p]]
                 /\ lateReg' = [lateReg EXCEPT ![p] = @ \/ Terminating(p)]
            ELSE /\ ctx' = [ctx EXCEPT ![p]["main"].pc = "gl_remove"]
                 /\ UNCHANGED <<locks, holds, lateReg>>
    /\ UNCHANGED <<status, exitCode, exitHandlers, SignalHandlers, notifier,
                   pidpc, logs, started, finished, triggers, nsig, cpu, cmd>>

\* GetLock, line 165 (the store of append) and the return; after the return
\* InitProcess starts the CreatePidFile goroutine (line 203).
GetLockRegister(p) ==
    /\ Running(p)
    /\ ctx[p]["main"].pc = "gl_reg"
    /\ exitHandlers' = [exitHandlers EXCEPT
                          ![p] = AppendHandler(ctx[p]["main"].base, "release")]
    /\ ctx' = [ctx EXCEPT ![p]["main"] = IdleFrame]
    /\ pidpc' = IF ctx[p]["main"].op = "InitProcess"
                THEN [pidpc EXCEPT ![p] = "create"] ELSE pidpc
    /\ UNCHANGED <<fs, status, exitCode, SignalHandlers, notifier, locks, logs,
                   holds, started, finished, lateReg, triggers, nsig, cpu, cmd>>

\* GetLock, line 167 and the return of the error; InitProcess then calls
\* Error (lines 198-200), which records the error and enters Exit(1).
GetLockRemove(p) ==
    /\ Running(p)
    /\ ctx[p]["main"].pc = "gl_remove"
    /\ fs' = RemoveOwnFile(fs, MyFile(p), TheLink)
    /\ IF ctx[p]["main"].op = "InitProcess"
       THEN /\ logs' = [logs EXCEPT ![p] = LogError(@)]
            /\ ctx' = [ctx EXCEPT ![p]["main"] = EnterExit(@, 1, "Error")]
            /\ triggers' = [triggers EXCEPT ![p] = @ + 1]
       ELSE /\ ctx' = [ctx EXCEPT ![p]["main"] = IdleFrame]
            /\ UNCHANGED <<logs, triggers>>
    /\ UNCHANGED <<status, exitCode, exitHandlers, SignalHandlers, notifier,
                   pidpc, locks, holds, started, finished, lateReg, nsig, cpu, cmd>>

\* ------------------------------------------------------- ReleaseLock
\* Lock.ReleaseLock called by the application on a Lock it was given,
\* line 173: os.Remove(lock.file).
ReleaseLockFile(p) ==
    /\ CanCall(p)
    /\ \E lock \in locks[p] :
         /\ fs' = RemoveLockFile(fs, lock)
         /\ ctx' = [ctx EXCEPT ![p]["main"].pc = "rl_link",
                               ![p]["main"].op = "ReleaseLock"]
    /\ holds' = [holds EXCEPT ![p] = FALSE]
    /\ UNCHANGED <<status, exitCode, exitHandlers, SignalHandlers, notifier,
                   pidpc, locks, logs, started, finished, lateReg, triggers,
                   nsig, cpu, cmd>>

\* Line 174: os.Remove(lock.link), and the return.
ReleaseLockLink(p) ==
    /\ Running(p)
    /\ ctx[p]["main"].pc = "rl_link"
    /\ \E lock \in locks[p] : fs' = RemoveLockLink(fs, lock)
    /\ ctx' = [ctx EXCEPT ![p]["main"] = IdleFrame]
    /\ UNCHANGED <<status, exitCode, exitHandlers, SignalHandlers, notifier,
                   pidpc, locks, logs, holds, started, finished, lateReg,
                   triggers, nsig, cpu, cmd>>

\* ------------------------------------------------ RegisterExitHandler
\* RegisterExitHandler called by the application with a handler of its own,
\* line 114: append reads the slice ...
RegisterRead(p) ==
    /\ CanCall(p)
    /\ Len(exitHandlers[p]) < MaxHandlers
    /\ ctx' = [ctx EXCEPT ![p]["main"].pc = "reg",
                          ![p]["main"].op = "RegisterExitHandler",
                          ![p]["main"].base = exitHandlers[p]]
    /\ lateReg' = [lateReg EXCEPT ![p] = @ \/ Terminating(p)]
    /\ UNCHANGED <<fs, status, exitCode, exitHandlers, SignalHandlers, notifier,
                   pidpc, locks, logs, holds, started, finished, triggers,
                   nsig, cpu, cmd>>

\* ... and the result is stored back into the package variable.
RegisterStore(p) ==
    /\ Running(p)
    /\ ctx[p]["main"].pc = "reg"
    /\ exitHandlers' = [exitHandlers EXCEPT
                          ![p] = AppendHandler(ctx[p]["main"].base, "user")]
    /\ ctx' = [ctx EXCEPT ![p]["main"] = IdleFrame]
    /\ UNCHANGED <<fs, status, exitCode, SignalHandlers, notifier, pidpc, locks,
                   logs, holds, started, finished, lateReg, triggers, nsig, cpu, cmd>>

\* --------------------------------------------------------------- Exit
\* Exit(code) called by the application, line 117.
ExitCall(p, code) ==
    /\ CanCall(p)
    /\ ctx' = [ctx EXCEPT ![p]["main"] =
                 EnterExit([@ EXCEPT !.op = "Exit"], code, "Exit")]
    /\ triggers' = [triggers EXCEPT ![p] = @ + 1]
    /\ UNCHANGED <<fs, status, exitCode, exitHandlers, SignalHandlers, notifier,
                   pidpc, locks, logs, holds, started, finished, lateReg, nsig,
                   cpu, cmd>>

\* Error(format, v...) and StandardError(err) called by the application,
\* lines 123-131: the error is logged, then Exit(1).
ErrorCall(p, helper) ==
    /\ CanCall(p)
    /\ logs' = [logs EXCEPT ![p] = LogError(@)]
    /\ ctx' = [ctx EXCEPT ![p]["main"] =
                 EnterExit([@ EXCEPT !.op = helper], 1, helper)]
    /\ triggers' = [triggers EXCEPT ![p] = @ + 1]
    /\ UNCHANGED <<fs, status, exitCode, exitHandlers, SignalHandlers, notifier,
                   pidpc, locks, holds, started, finished, lateReg, nsig, cpu, cmd>>

\* Exit, line 118: log.Wait().
ExitFlush(p, c) ==
    /\ Running(p)
    /\ ctx[p][c].pc = "x_flush"
    /\ logs' = [logs EXCEPT ![p] = LogWait(@)]
    /\ ctx' = [ctx EXCEPT ![p][c].pc = "x_range", ![p][c].flushed = TRUE]
    /\ UNCHANGED <<fs, status, exitCode, exitHandlers, SignalHandlers, notifier,
                   pidpc, locks, holds, started, finished, lateReg, triggers,
                   nsig, cpu, cmd>>

\* RunExitHandlers, line 108: the range expression is evaluated once.
ExitRange(p, c) ==
    /\ Running(p)
    /\ ctx[p][c].pc = "x_range"
    /\ ctx' = [ctx EXCEPT ![p][c].snap = exitHandlers[p], ![p][c].i = 1,
                          ![p][c].pc = RangeStart(exitHandlers[p])]
    /\ UNCHANGED <<fs, status, exitCode, exitHandlers, SignalHandlers, notifier,
                   pidpc, locks, logs, holds, started, finished, lateReg,
                   triggers, nsig, cpu, cmd>>

\* The same read while another goroutine of the process is about to store
\* into exitHandlers: the two accesses are unordered, and the slice header
\* is three words.  Besides the old and the new value (ExitRange before or
\* after the store) the read can return a mixed header, on which the loop
\* calls through memory that holds no handler: the runtime kills the process
\* (exit status 2).
ExitRangeTorn(p, c) ==
    /\ Running(p)
    /\ ctx[p][c].pc = "x_range"
    /\ \E d \in Ctxs \ {c} : ctx[p][d].pc \in StorePcs
    /\ EndProcess(p, "crashed", 2)

\* RunExitHandlers, line 109, for a handler the application registered: it
\* is called and returns.
ExitCallUser(p, c) ==
    /\ Running(p)
    /\ ctx[p][c].pc = "x_call"
    /\ ctx[p][c].snap[Visiting(p, c)] = "user"
    /\ started' = [started EXCEPT ![p] = Append(@, Visiting(p, c))]
    /\ finished' = [finished EXCEPT ![p] = Append(@, Visiting(p, c))]
    /\ ctx' = [ctx EXCEPT ![p][c].pc = AfterHandler(ctx[p][c].snap, ctx[p][c].i),
                          ![p][c].i = @ + 1]
    /\ UNCHANGED <<fs, status, exitCode, exitHandlers, SignalHandlers, notifier,
                   pidpc, locks, logs, holds, lateReg, triggers, nsig, cpu, cmd>>

\* RunExitHandlers, line 109, for the closure GetLock registered (line 165):
\* it calls lock.ReleaseLock(), whose first statement removes lock.file.
ExitCallRelease(p, c) ==
    /\ Running(p)
    /\ ctx[p][c].pc = "x_call"
    /\ ctx[p][c].snap[Visiting(p, c)] = "release"
    /\ fs' = RemoveLockFile(fs, NewLock(TheLink, MyFile(p)))
    /\ holds' = [holds EXCEPT ![p] = FALSE]
    /\ started' = [started EXCEPT ![p] = Append(@, Visiting(p, c))]
    /\ ctx' = [ctx EXCEPT ![p][c].pc = "x_rel"]
    /\ UNCHANGED <<status, exitCode, exitHandlers, SignalHandlers, notifier,
                   pidpc, locks, logs, finished, lateReg, triggers, nsig, cpu, cmd>>

\* The closure's second statement, os.Remove(lock.link), and its return.
ExitReleaseLink(p, c) ==
    /\ Running(p)
    /\ ctx[p][c].pc = "x_rel"
    /\ fs' = RemoveLockLink(fs, NewLock(TheLink, MyFile(p)))
    /\ finished' = [finished EXCEPT ![p] = Append(@, Visiting(p, c))]
    /\ ctx' = [ctx EXCEPT ![p][c].pc = AfterHandler(ctx[p][c].snap, ctx[p][c].i),
                          ![p][c].i = @ + 1]
    /\ UNCHANGED <<status, exitCode, exitHandlers, SignalHandlers, notifier,
                   pidpc, locks, logs, holds, started, lateReg, triggers, nsig,
                   cpu, cmd>>

\* An Exit that ended the process with status 0 whatever its argument.
ExitStatusZero(frame) == 0

\* The code os.Exit is called with: Exit's parameter.
ExitStatus(frame) == frame.code

\* Exit, line 120: os.Exit(code), once the RunExitHandlers call Exit made
\* has returned.
OsExit(p, c) ==
    /\ Running(p)
    /\ ctx[p][c].pc = "x_exit"
    /\ ctx[p][c].op # "RunExitHandlers"
    /\ EndProcess(p, "exited", ExitStatus(ctx[p][c]))

\* RunExitHandlers called by the application itself (it is exported),
\* line 107: the loop of line 108 is next.
RunExitHandlersCall(p) ==
    /\ CanCall(p)
    /\ Len(started[p]) < MaxStarted
    /\ ctx' = [ctx EXCEPT ![p]["main"].pc = "x_range",
                          ![p]["main"].op = "RunExitHandlers"]
    /\ UNCHANGED <<fs, status, exitCode, exitHandlers, SignalHandlers, notifier,
                   pidpc, locks, logs, holds, started, finished, lateReg,
                   triggers, nsig, cpu, cmd>>

\* Line 111: the loop is over and RunExitHandlers returns to the
\* application; exitHandlers is as it was.
RunExitHandlersReturn(p) ==
    /\ Running(p)
    /\ ctx[p]["main"].pc = "x_exit"
    /\ ctx[p]["main"].op = "RunExitHandlers"
    /\ ctx' = [ctx EXCEPT ![p]["main"] = IdleFrame]
    /\ UNCHANGED <<fs, status, exitCode, exitHandlers, SignalHandlers, notifier,
                   pidpc, locks, logs, holds, started, finished, lateReg,
                   triggers, nsig, cpu, cmd>>

\* ------------------------------------------------------ handleSignals
\* A channel that put the newest signal first.
DeliverFirst(queue, sig) ==
    IF Len(queue) < NotifierCap THEN <<sig>> \o queue ELSE queue

\* A channel without a capacity.
DeliverUnbounded(queue, sig) == Append(queue, sig)

\* signal.Notify hands a signal to the channel when there is room and drops
\* it otherwise (line 93 sets the capacity).
Deliver(queue, sig) ==
    IF Len(queue) < NotifierCap THEN Append(queue, sig) ELSE queue

\* The operating system sends sig to process p.
Signal(p, sig) ==
    /\ Running(p)
    /\ nsig[p] < MaxSignals
    /\ notifier' = [notifier EXCEPT ![p] = Deliver(@, sig)]
    /\ nsig' = [nsig EXCEPT ![p] = @ + 1]
    /\ UNCHANGED <<fs, status, exitCode, exitHandlers, SignalHandlers, ctx, pidpc,
                   locks, logs, holds, started, finished, lateReg, triggers,
                   cpu, cmd>>

\* The same signal sent to a process whose dispatcher is studied on its own.
SignalBurst(p, sig) ==
    /\ Running(p)
    /\ nsig[p] < MaxBurst
    /\ notifier' = [notifier EXCEPT ![p] = Deliver(@, sig)]
    /\ nsig' = [nsig EXCEPT ![p] = @ + 1]
    /\ UNCHANGED <<fs, status, exitCode, exitHandlers, SignalHandlers, ctx, pidpc,
                   locks, logs, holds, started, finished, lateReg, triggers,
                   cpu, cmd>>

\* SIGHUP sent over and over to a process that is slow to take it.
SignalFlood(p) ==
    /\ Running(p)
    /\ nsig[p] < MaxFlood
    /\ notifier' = [notifier EXCEPT ![p] = Deliver(@, SIGHUP)]
    /\ nsig' = [nsig EXCEPT ![p] = @ + 1]
    /\ UNCHANGED <<fs, status, exitCode, exitHandlers, SignalHandlers, ctx, pidpc,
                   locks, logs, holds, started, finished, lateReg, triggers,
                   cpu, cmd>>

\* The application installs a handler of its own for sig, one that calls
\* RegisterExitHandler and returns: SignalHandlers[sig] = func() {...}, an
\* assignment to the exported map of line 90.  The write of the map begins
\* ...
SetHandlerBegin(p, sig) ==
    /\ CanCall(p)
    /\ sig \notin DOMAIN SignalHandlers[p]
    /\ ctx' = [ctx EXCEPT ![p]["main"].pc = "sh_write", ![p]["main"].op = sig]
    /\ UNCHANGED <<fs, status, exitCode, exitHandlers, SignalHandlers, notifier,
                   pidpc, locks, logs, holds, started, finished, lateReg,
                   triggers, nsig, cpu, cmd>>

\* The table with one more entry.
PutHandler(table, sig, handler) ==
    [s \in DOMAIN table \cup {sig} |-> IF s = sig THEN handler ELSE table[s]]

\* ... and completes.
SetHandlerEnd(p) ==
    /\ Running(p)
    /\ ctx[p]["main"].pc = "sh_write"
    /\ SignalHandlers' = [SignalHandlers EXCEPT
                            ![p] = PutHandler(@, ctx[p]["main"].op, "register")]
    /\ ctx' = [ctx EXCEPT ![p]["main"] = IdleFrame]
    /\ UNCHANGED <<fs, status, exitCode, exitHandlers, notifier, pidpc, locks,
                   logs, holds, started, finished, lateReg, triggers, nsig, cpu,
                   cmd>>

\* handleSignals, lines 97-101: receive, look the handler up, call it.  The
\* default handlers call Exit(0), which does not return; a handler of the
\* application is called and will return; a signal without a handler is
\* dropped and the loop receives again.
Dispatch(p) ==
    /\ Running(p)
    /\ ctx[p]["disp"].pc = "recv"
    /\ notifier[p] # <<>>
    /\ LookupHandler(SignalHandlers[p], Head(notifier[p])) = "register"
          => Len(exitHandlers[p]) < MaxHandlers
    /\ notifier' = [notifier EXCEPT ![p] = Tail(@)]
    /\ IF LookupHandler(SignalHandlers[p], Head(notifier[p])) = "exit0"
       THEN /\ ctx' = [ctx EXCEPT ![p]["disp"] =
                         EnterExit([@ EXCEPT !.op = Head(notifier[p]),
                                             !.seen = Len(exitHandlers[p])],
                                   0, "signal")]
            /\ triggers' = [triggers EXCEPT ![p] = @ + 1]
            /\ lateReg' = [lateReg EXCEPT ![p] = @ \/ StorePending(p)]
       ELSE IF LookupHandler(SignalHandlers[p], Head(notifier[p])) = "register"
       THEN /\ ctx' = [ctx EXCEPT ![p]["disp"].pc = "h_call",
                                  ![p]["disp"].op = Head(notifier[p])]
            /\ UNCHANGED <<triggers, lateReg>>
       ELSE UNCHANGED <<ctx, triggers, lateReg>>
    /\ UNCHANGED <<fs, status, exitCode, exitHandlers, SignalHandlers, pidpc,
                   locks, logs, holds, started, finished, nsig, cpu, cmd>>

\* handleSignals, line 98, while the application's write of the map is in
\* progress: the two accesses are unordered.  Besides the old and the new
\* table (Dispatch before or after the write completes) the runtime can
\* detect the concurrent map read and map write and kill the process (exit
\* status 2).
DispatchRacing(p) ==
    /\ Running(p)
    /\ ctx[p]["disp"].pc = "recv"
    /\ notifier[p] # <<>>
    /\ ctx[p]["main"].pc = "sh_write"
    /\ EndProcess(p, "crashed", 2)

\* The application's signal handler, running on the dispatcher goroutine,
\* calls RegisterExitHandler: line 114, append reads the slice ...
HandlerRegisterRead(p) ==
    /\ Running(p)
    /\ ctx[p]["disp"].pc = "h_call"
    /\ ctx' = [ctx EXCEPT ![p]["disp"].pc = "reg",
                          ![p]["disp"].base = exitHandlers[p]]
    /\ lateReg' = [lateReg EXCEPT ![p] = @ \/ Terminating(p)]
    /\ UNCHANGED <<fs, status, exitCode, exitHandlers, SignalHandlers, notifier,
                   pidpc, locks, logs, holds, started, finished, triggers,
                   nsig, cpu, cmd>>

\* ... the result is stored, the handler returns and the loop of line 96
\* receives again.
HandlerRegisterStore(p) ==
    /\ Running(p)
    /\ ctx[p]["disp"].pc = "reg"
    /\ exitHandlers' = [exitHandlers EXCEPT
                          ![p] = AppendHandler(ctx[p]["disp"].base, "user")]
    /\ ctx' = [ctx EXCEPT ![p]["disp"] = StartCtx["disp"]]
    /\ UNCHANGED <<fs, status, exitCode, SignalHandlers, notifier, pidpc, locks,
                   logs, holds, started, finished, lateReg, triggers, nsig, cpu,
                   cmd>>

\* ------------------------------------------------------ CreatePidFile
\* CreatePidFile, line 134, on the goroutine InitProcess started.
CreatePidFileOpen(p) ==
    /\ Running(p)
    /\ pidpc[p] = "create"
    /\ fs' = OsOpenCreate(fs, ThePidFile, "").fs
    /\ pidpc' = [pidpc EXCEPT ![p] = "write"]
    /\ UNCHANGED <<status, exitCode, exitHandlers, SignalHandlers, notifier, ctx,
                   locks, logs, holds, started, finished, lateReg, triggers,
                   nsig, cpu, cmd>>

\* CreatePidFile, lines 138-139: the pid is written and the file closed.
CreatePidFileWrite(p) ==
    /\ Running(p)
    /\ pidpc[p] = "write"
    /\ fs' = OsWritePid(fs, ThePidFile, p)
    /\ pidpc' = [pidpc EXCEPT ![p] = "done"]
    /\ UNCHANGED <<status, exitCode, exitHandlers, SignalHandlers, notifier, ctx,
                   locks, logs, holds, started, finished, lateReg, triggers,
                   nsig, cpu, cmd>>

\* ----------------------------------------------------- specifications
\* The lock protocol: every process acquires, releases, is sent the
\* termination signal and runs its exit chain, in any interleaving.
NextLock ==
    \/ \E p \in Procs : GetLockOpen(p, "GetLock")
    \/ \E p \in Procs : GetLockLink(p)
    \/ \E p \in Procs : GetLockRegister(p)
    \/ \E p \in Procs : GetLockRemove(p)
    \/ \E p \in Procs : ReleaseLockFile(p)
    \/ \E p \in Procs : ReleaseLockLink(p)
    \/ \E p \in Procs, c \in Ctxs : ExitFlush(p, c)
    \/ \E p \in Procs, c \in Ctxs : ExitRange(p, c)
    \/ \E p \in Procs, c \in Ctxs : ExitRangeTorn(p, c)
    \/ \E p \in Procs, c \in Ctxs : ExitCallRelease(p, c)
    \/ \E p \in Procs, c \in Ctxs : ExitReleaseLink(p, c)
    \/ \E p \in Procs, c \in Ctxs : OsExit(p, c)
    \/ \E p \in Procs : Signal(p, SIGTERM)
    \/ \E p \in Procs : Dispatch(p)

SpecLock == Init /\ [][NextLock]_vars

\* Instances of the service: every process starts with InitProcess, is sent
\* signals and runs its exit chain.
NextInit ==
    \/ \E p \in Procs : GetLockOpen(p, "InitProcess")
    \/ \E p \in Procs : GetLockLink(p)
    \/ \E p \in Procs : GetLockRegister(p)
    \/ \E p \in Procs : GetLockRemove(p)
    \/ \E p \in Procs, c \in Ctxs : ExitFlush(p, c)
    \/ \E p \in Procs, c \in Ctxs : ExitRange(p, c)
    \/ \E p \in Procs, c \in Ctxs : ExitRangeTorn(p, c)
    \/ \E p \in Procs, c \in Ctxs : ExitCallRelease(p, c)
    \/ \E p \in Procs, c \in Ctxs : ExitReleaseLink(p, c)
    \/ \E p \in Procs, c \in Ctxs : OsExit(p, c)
    \/ \E p \in Procs, sig \in Signals : Signal(p, sig)
    \/ \E p \in Procs : Dispatch(p)
    \/ \E p \in Procs : CreatePidFileOpen(p)
    \/ \E p \in Procs : CreatePidFileWrite(p)

SpecInit == Init /\ [][NextInit]_vars

\* Acquire and release alone, by every process.
NextRelease ==
    \/ \E p \in Procs : GetLockOpen(p, "GetLock")
    \/ \E p \in Procs : GetLockLink(p)
    \/ \E p \in Procs : GetLockRegister(p)
    \/ \E p \in Procs : GetLockRemove(p)
    \/ \E p \in Procs : ReleaseLockFile(p)
    \/ \E p \in Procs : ReleaseLockLink(p)

SpecRelease == Init /\ [][NextRelease]_vars

\* The exit chain of one process: registration, the lock's release handler,
\* every termination path and every signal.
ChainProc == "101"

NextChain ==
    \/ GetLockOpen(ChainProc, "GetLock")
    \/ GetLockLink(ChainProc)
    \/ GetLockRegister(ChainProc)
    \/ GetLockRemove(ChainProc)
    \/ RegisterRead(ChainProc)
    \/ RegisterStore(ChainProc)
    \/ \E code \in ExitCodes : ExitCall(ChainProc, code)
    \/ \E helper \in {"Error", "StandardError"} : ErrorCall(ChainProc, helper)
    \/ \E c \in Ctxs : ExitFlush(ChainProc, c)
    \/ \E c \in Ctxs : ExitRange(ChainProc, c)
    \/ \E c \in Ctxs : ExitRangeTorn(ChainProc, c)
    \/ \E c \in Ctxs : ExitCallUser(ChainProc, c)
    \/ \E c \in Ctxs : ExitCallRelease(ChainProc, c)
    \/ \E c \in Ctxs : ExitReleaseLink(ChainProc, c)
    \/ \E c \in Ctxs : OsExit(ChainProc, c)
    \/ \E sig \in Signals : Signal(ChainProc, sig)
    \/ Dispatch(ChainProc)

SpecChain == Init /\ [][NextChain]_vars

\* One process and its main context alone: registrations, runs of the chain
\* the application starts itself, and Exit, one call after the other.
NextSequential ==
    \/ GetLockOpen(ChainProc, "GetLock")
    \/ GetLockLink(ChainProc)
    \/ GetLockRegister(ChainProc)
    \/ GetLockRemove(ChainProc)
    \/ RegisterRead(ChainProc)
    \/ RegisterStore(ChainProc)
    \/ RunExitHandlersCall(ChainProc)
    \/ RunExitHandlersReturn(ChainProc)
    \/ \E code \in ExitCodes : ExitCall(ChainProc, code)
    \/ ExitFlush(ChainProc, "main")
    \/ ExitRange(ChainProc, "main")
    \/ ExitCallUser(ChainProc, "main")
    \/ ExitCallRelease(ChainProc, "main")
    \/ ExitReleaseLink(ChainProc, "main")
    \/ OsExit(ChainProc, "main")

SpecSequential == Init /\ [][NextSequential]_vars

\* The dispatcher of one process: signals of every kind, the default
\* handlers and a handler the application installs, while the main context
\* registers exit handlers and acquires the lock.  Nothing but a signal
\* starts a termination.
NextDispatch ==
    \/ GetLockOpen(ChainProc, "GetLock")
    \/ GetLockLink(ChainProc)
    \/ GetLockRegister(ChainProc)
    \/ GetLockRemove(ChainProc)
    \/ RegisterRead(ChainProc)
    \/ RegisterStore(ChainProc)
    \/ SetHandlerBegin(ChainProc, SIGHUP)
    \/ SetHandlerEnd(ChainProc)
    \/ \E sig \in Signals : SignalBurst(ChainProc, sig)
    \/ Dispatch(ChainProc)
    \/ DispatchRacing(ChainProc)
    \/ HandlerRegisterRead(ChainProc)
    \/ HandlerRegisterStore(ChainProc)
    \/ ExitFlush(ChainProc, "disp")
    \/ ExitRange(ChainProc, "disp")
    \/ ExitRangeTorn(ChainProc, "disp")
    \/ ExitCallUser(ChainProc, "disp")
    \/ ExitCallRelease(ChainProc, "disp")
    \/ ExitReleaseLink(ChainProc, "disp")
    \/ OsExit(ChainProc, "disp")

SpecDispatch == Init /\ [][NextDispatch]_vars

\* The notifier channel of one process under a flood: one signal of any
\* kind, then SIGHUP (which has no handler) again and again, the dispatcher
\* taking signals whenever it is scheduled.
NextFlood ==
    \/ \E sig \in Signals : Signal(ChainProc, sig)
    \/ SignalFlood(ChainProc)
    \/ Dispatch(ChainProc)
    \/ ExitFlush(ChainProc, "disp")
    \/ ExitRange(ChainProc, "disp")
    \/ OsExit(ChainProc, "disp")

SpecFlood == Init /\ [][NextFlood]_vars

\* -------------------------------------------------------- GetCPUCount
\* Text is a sequence of one-character strings.
Platforms == {"darwin", "freebsd", "linux", "windows"}

Digits == {"0", "1", "2", "3", "4", "5", "6", "7", "8", "9"}
DigitValue(ch) ==
    CASE ch = "0" -> 0 [] ch = "1" -> 1 [] ch = "2" -> 2 [] ch = "3" -> 3
      [] ch = "4" -> 4 [] ch = "5" -> 5 [] ch = "6" -> 6 [] ch = "7" -> 7
      [] ch = "8" -> 8 [] ch = "9" -> 9

\* unicode.IsSpace on the characters of the model.
IsSpace(ch) == ch \in {" ", "\t", "\n", "\r"}

RECURSIVE TrimLeft(_)
TrimLeft(s) == IF s # <<>> /\ IsSpace(Head(s)) THEN TrimLeft(Tail(s)) ELSE s

RECURSIVE TrimRight(_)
TrimRight(s) ==
    IF s # <<>> /\ IsSpace(s[Len(s)]) THEN TrimRight(SubSeq(s, 1, Len(s) - 1)) ELSE s

\* strings.TrimSpace
TrimSpace(s) == TrimRight(TrimLeft(s))

RECURSIVE DigitsValue(_)
DigitsValue(s) ==
    IF s = <<>> THEN 0
    ELSE 10 * DigitsValue(SubSeq(s, 1, Len(s) - 1)) + DigitValue(s[Len(s)])

\* strconv.Atoi: an optional sign, then one or more decimal digits; anything
\* else is a syntax error.  (The texts of the model are too short to leave
\* the range of int.)
Atoi(s) ==
    LET signed == s # <<>> /\ s[1] \in {"+", "-"}
        body == IF signed THEN Tail(s) ELSE s
        ok == body # <<>> /\ \A j \in 1..Len(body) : body[j] \in Digits
        magnitude == IF ok THEN DigitsValue(body) ELSE 0
    IN  [err |-> ~ok,
         val |-> IF signed /\ s[1] = "-" THEN 0 - magnitude ELSE magnitude]

\* strings.Split(s, "\n")
RECURSIVE SplitLines(_)
SplitLines(s) ==
    IF \A j \in 1..Len(s) : s[j] # "\n" THEN <<s>>
    ELSE LET k == CHOOSE j \in 1..Len(s) :
                    s[j] = "\n" /\ \A m \in 1..(j - 1) : s[m] # "\n"
         IN  <<SubSeq(s, 1, k - 1)>> \o SplitLines(SubSeq(s, k + 1, Len(s)))

\* strings.HasPrefix
HasPrefix(s, prefix) ==
    Len(s) >= Len(prefix) /\ SubSeq(s, 1, Len(prefix)) = prefix

ProcessorWord == <<"p", "r", "o", "c", "e", "s", "s", "o", "r">>

\* GetCPUCount, lines 367-371: the lines that start with "processor".
CountProcessorLines(output) ==
    LET lines == SplitLines(output)
    IN  Cardinality({j \in 1..Len(lines) : HasPrefix(lines[j], ProcessorWord)})

\* GetCPUCount on a platform, given whether command.GetOutput failed and
\* what it returned.
GetCPUCount(platform, failed, output) ==
    IF platform \in {"darwin", "freebsd"}
    THEN IF failed THEN 1
         ELSE LET r == Atoi(TrimSpace(output))
              IN  IF r.err THEN 1 ELSE IF r.val = 0 THEN 1 ELSE r.val
    ELSE IF platform = "linux"
    THEN IF failed THEN 1
         ELSE LET count == CountProcessorLines(output)
              IN  IF count = 0 THEN 1 ELSE count
    ELSE 1

\* What the introspection commands may print: every short text over the
\* characters of a number, and every short listing of /proc/cpuinfo lines.
SysctlChars == {"-", "+", "0", "4", " ", "\n", "x"}
SysctlOutputs == UNION {[1..n -> SysctlChars] : n \in 0..MaxOutputLen}

CpuinfoLines ==
    {ProcessorWord \o <<"\t", ":", " ", "0">>, ProcessorWord,
     <<"m", "o", "d", "e", "l">>, <<" ">> \o ProcessorWord,
     <<"p", "r", "o", "c">>, <<>>}

RECURSIVE JoinLines(_)
JoinLines(lines) ==
    IF lines = <<>> THEN <<>>
    ELSE Head(lines) \o <<"\n">> \o JoinLines(Tail(lines))

CpuinfoOutputs ==
    {JoinLines(ls) : ls \in UNION {[1..n -> CpuinfoLines] : n \in 0..MaxLines}}

InitCPU ==
    /\ InitProcs
    /\ cpu \in [platform : Platforms, err : BOOLEAN,
                 output : SysctlOutputs \cup CpuinfoOutputs,
                 count : {0}, done : {FALSE}]
    /\ cmd = NoCmd

\* init(), line 427: CPUCount = GetCPUCount().
GetCPUCountCall ==
    /\ ~cpu.done
    /\ cpu' = [cpu EXCEPT !.count = GetCPUCount(cpu.platform, cpu.err, cpu.output),
                          !.done = TRUE]
    /\ UNCHANGED <<fs, status, exitCode, exitHandlers, SignalHandlers, notifier,
                   ctx, pidpc, locks, logs, holds, started, finished, lateReg,
                   triggers, nsig, cmd>>

NextCPU == GetCPUCountCall

SpecCPU == InitCPU /\ [][NextCPU]_vars

\* ---------------------------------------------------------- GetOutput
\* The argument vectors GetOutput is called with (never empty: every caller
\* passes a literal that starts with the program's path).
Argvs == {<<"/usr/sbin/sysctl", "-n", "hw.ncpu">>, <<"/bin/cat", "/proc/cpuinfo">>}

\* What a child with n bytes of output writes, byte by byte.
ChildOutput(n) == [j \in 1..n |-> j]

everythingButCmd ==
    <<fs, status, exitCode, exitHandlers, SignalHandlers, notifier, ctx, pidpc,
      locks, logs, holds, started, finished, lateReg, triggers, nsig, cpu>>

\* A call of GetOutput about to start: its arguments, how much the child
\* will write, and which of the system calls will fail.
InitOutput ==
    /\ InitProcs
    /\ cpu = NoCpu
    /\ \E args \in Argvs, size \in 0..MaxChildOutput,
          pf \in BOOLEAN, sf \in BOOLEAN, wf \in BOOLEAN, rf \in BOOLEAN :
          cmd = [NoCmd EXCEPT !.pc = "pipe", !.args = args, !.size = size,
                              !.pipeFails = pf, !.spawnFails = sf,
                              !.waitFails = wf, !.readFails = rf]

\* A return that handed out whatever the buffer held, also on a failure.
ReturnedBuffer(c, ok) == c.buffer

\* What the return statement writes to the output result: the buffer on
\* success, the empty string at the Error label (line 57).
ReturnedOutput(c, ok) == IF ok THEN c.buffer ELSE <<>>

\* The write end as GetOutput leaves it on the way to the Error label after
\* os.StartProcess failed (line 41: write_pipe.Close()).
WriteEndAfterSpawnFailure(c) == FALSE

\* Return from GetOutput: the results are set and, when the function got
\* past line 33, the deferred read_pipe.Close() runs.
Return(c, ok, failed) ==
    [c EXCEPT !.pc = "done",
              !.failed = failed,
              !.output = ReturnedOutput(c, ok),
              !.err = IF ok THEN NilError ELSE CommandError(c.args[1], c.args),
              !.rOpen = IF c.created THEN FALSE ELSE @]

\* Lines 29-33: os.Pipe(); on an error, goto Error; else the close of the
\* read end is deferred.
OsPipe ==
    /\ cmd.pc = "pipe"
    /\ cmd' = IF cmd.pipeFails
              THEN Return(cmd, FALSE, "pipe")
              ELSE [cmd EXCEPT !.pc = "spawn", !.created = TRUE,
                               !.rOpen = TRUE, !.wOpen = TRUE]
    /\ UNCHANGED everythingButCmd

\* Lines 34-43: os.StartProcess with the write end as the child's standard
\* output; on an error the write end is closed and goto Error.
StartProcess ==
    /\ cmd.pc = "spawn"
    /\ cmd' = IF cmd.spawnFails
              THEN Return([cmd EXCEPT !.wOpen = WriteEndAfterSpawnFailure(cmd)],
                          FALSE, "spawn")
              ELSE [cmd EXCEPT !.pc = "wait", !.child = "running"]
    /\ UNCHANGED everythingButCmd

\* The child writes one byte to its standard output; the write blocks while
\* the pipe is full.
ChildWrite ==
    /\ cmd.child = "running"
    /\ cmd.written < cmd.size
    /\ Len(cmd.pipe) < PipeCap
    /\ cmd' = [cmd EXCEPT !.pipe = Append(@, ChildOutput(cmd.size)[cmd.written + 1]),
                          !.written = @ + 1]
    /\ UNCHANGED everythingButCmd

\* The child has written everything and exits, which closes its copy of the
\* write end.
ChildExit ==
    /\ cmd.child = "running"
    /\ cmd.written = cmd.size
    /\ cmd' = [cmd EXCEPT !.child = "exited"]
    /\ UNCHANGED everythingButCmd

\* Line 44: process.Wait() returns once the child has exited.
ProcessWait ==
    /\ cmd.pc = "wait"
    /\ cmd.child = "exited"
    /\ cmd' = [cmd EXCEPT !.pc = "closew", !.waitErr = cmd.waitFails]
    /\ UNCHANGED everythingButCmd

\* Lines 45-48: write_pipe.Close(), then goto Error if Wait failed.
CloseWritePipe ==
    /\ cmd.pc = "closew"
    /\ cmd' = IF cmd.waitErr
              THEN Return([cmd EXCEPT !.wOpen = FALSE], FALSE, "wait")
              ELSE [cmd EXCEPT !.pc = "copy", !.wOpen = FALSE]
    /\ UNCHANGED everythingButCmd

\* Line 50, io.Copy(buffer, read_pipe): one read that returns data.
CopyRead ==
    /\ cmd.pc = "copy"
    /\ cmd.pipe # <<>>
    /\ cmd' = [cmd EXCEPT !.buffer = Append(@, Head(cmd.pipe)), !.pipe = Tail(@)]
    /\ UNCHANGED everythingButCmd

\* Lines 50-53: a read fails, io.Copy returns the error, goto Error.
CopyFail ==
    /\ cmd.pc = "copy"
    /\ cmd.readFails
    /\ cmd' = Return(cmd, FALSE, "read")
    /\ UNCHANGED everythingButCmd

\* Lines 50-55: a read finds the pipe empty with every write end closed
\* (end of file), io.Copy returns nil and the buffer is returned.
CopyEOF ==
    /\ cmd.pc = "copy"
    /\ cmd.pipe = <<>>
    /\ ~cmd.wOpen
    /\ cmd.child # "running"
    /\ cmd' = Return(cmd, TRUE, "none")
    /\ UNCHANGED everythingButCmd

NextOutput ==
    \/ OsPipe
    \/ StartProcess
    \/ ChildWrite
    \/ ChildExit
    \/ ProcessWait
    \/ CloseWritePipe
    \/ CopyRead
    \/ CopyFail
    \/ CopyEOF

SpecOutput == InitOutput /\ [][NextOutput]_vars

\* ------------------------------------------------------------ claims
Holders == {p \in Procs : holds[p]}
Occurrences(seq, x) == Cardinality({j \in 1..Len(seq) : seq[j] = x})
Elems(seq) == {seq[j] : j \in 1..Len(seq)}
UpTo(n) == [j \in 1..n |-> j]
Ends(p) == status[p] = "running" /\ status'[p] # "running"
MainMoves(p) == ctx'[p]["main"] # ctx[p]["main"]

\* C1: mutual exclusion.  In every reachable state at most one process holds
\* the lock, a process holding it from the moment its acquire succeeded
\* until it first releases (by ReleaseLock or by the handler in its exit
\* chain).
C1_MutualExclusion == Cardinality(Holders) <= 1

\* C2: every registered exit handler is invoked at most once in the life of
\* a process, also when Exit is entered by the dispatcher and by the main
\* context concurrently.
C2_HandlersAtMostOnce ==
    \A p \in Procs : \A j \in Elems(started[p]) : Occurrences(started[p], j) <= 1

\* C3: when Exit is entered once and every registration was complete before
\* that, the handlers are invoked in registration order, one at a time (a
\* handler starts only after the one before it returned), each once, and
\* the process ends, through os.Exit, only after all of them returned.
C3_Sequential(p) ==
    /\ started[p] = UpTo(Len(started[p]))
    /\ finished[p] = UpTo(Len(finished[p]))
    /\ Len(finished[p]) <= Len(started[p])
    /\ Len(started[p]) <= Len(finished[p]) + 1
    /\ Len(started[p]) <= Len(exitHandlers[p])

C3_SingleTrigger(p) == triggers[p] = 1 /\ ~lateReg[p]

C3_FifoOnce ==
    /\ [](\A p \in Procs : C3_SingleTrigger(p) => C3_Sequential(p))
    /\ [][\A p \in Procs :
            (C3_SingleTrigger(p) /\ Ends(p)) =>
                /\ status'[p] = "exited"
                /\ finished[p] = UpTo(Len(exitHandlers[p]))]_vars

\* C3 witness: a process with two handlers, one of them the lock's release
\* handler, is about to call os.Exit after a single trigger, both handlers
\* having returned.
C3_Witness ==
    \E p \in Procs, c \in Ctxs :
        /\ C3_SingleTrigger(p)
        /\ ctx[p][c].pc = "x_exit"
        /\ Len(exitHandlers[p]) = 2
        /\ "release" \in Elems(exitHandlers[p])
        /\ finished[p] = <<1, 2>>

\* C4: an acquire succeeds only while no process holds the lock: of
\* concurrent acquires at most one succeeds, and while the lock is held
\* every acquire fails.
C4_AcquireOnlyWhenFree ==
    [][\A p \in Procs :
         (ctx[p]["main"].pc = "gl_link" /\ ctx'[p]["main"].pc = "gl_reg")
             => Holders = {}]_vars

\* C5: when the holder's release() returns, and when a process that
\* acquired the lock has ended through Exit, the stable link and the
\* process's PID-qualified file are gone (the link at least is not this
\* process's any more), so that the next acquire finds the link free.
C5_ReleasedAfterReleaseOrExit ==
    [][\A p \in Procs :
         /\ (ctx[p]["main"].pc = "rl_link" /\ MainMoves(p) /\ ~Ends(p))
               => (fs'[TheLink] = Absent /\ fs'[MyFile(p)] = Absent)
         /\ (Ends(p) /\ status'[p] = "exited" /\ locks[p] # {})
               => (fs'[TheLink] # Inode(p) /\ fs'[MyFile(p)] = Absent)]_vars

\* C6: release is idempotent.  In every reachable state and for every Lock a
\* process was given, releasing twice in succession reports no error and
\* leaves the filesystem as releasing once does, with both lock paths absent.
C6_ReleaseIdempotent ==
    \A p \in Procs : \A lock \in locks[p] :
        LET once == ReleaseLock(fs, lock)
            twice == ReleaseLock(once.fs, lock)
        IN  /\ ~once.err
            /\ ~twice.err
            /\ twice.fs = once.fs
            /\ once.fs[lock.link] = Absent
            /\ once.fs[lock.file] = Absent

\* C6 witness: a process is inside ReleaseLock on a Lock both of whose paths
\* are already absent (a repeated release), while it still has the Lock.
C6_Witness ==
    \E p \in Procs :
        /\ ctx[p]["main"].pc = "rl_link"
        /\ locks[p] # {}
        /\ fs[TheLink] = Absent
        /\ fs[MyFile(p)] = Absent
        /\ Len(exitHandlers[p]) >= 1

\* C7: a process that ends without any termination trigger but a signal
\* ends through os.Exit with code 0, and every exit handler that was
\* registered when the dispatcher took the signal has returned by then.
C7_SignalExitsCleanly ==
    [][\A p \in Procs :
         (Ends(p) /\ ~InExit(p, "main")) =>
             /\ status'[p] = "exited"
             /\ exitCode'[p] = 0
             /\ \A j \in 1..ctx[p]["disp"].seen : j \in Elems(finished[p])]_vars

\* C8: a second instance is a process that starts with InitProcess (it has
\* acquired nothing before) and finds the lock taken.  Unless its dispatcher
\* is ending it on a signal, it ends through os.Exit with code 1; while it
\* fails and exits, its steps leave the stable link and the PID-qualified
\* file of every process holding the lock as they are; it never starts the
\* PID-file goroutine; and any process creates or writes the PID file only
\* after its own acquire succeeded.
C8_FailingInit(p) ==
    /\ ctx[p]["main"].op = "InitProcess"
    /\ ctx[p]["main"].pc \in {"gl_remove"} \cup ExitPcs
    /\ locks[p] = {}

C8_SecondInstanceFailsCleanly ==
    [][\A p \in Procs :
         /\ (C8_FailingInit(p) /\ ~InExit(p, "disp") /\ Ends(p))
               => (status'[p] = "exited" /\ exitCode'[p] = 1)
         /\ (C8_FailingInit(p) /\ MainMoves(p))
               => \A q \in Holders \ {p} :
                     /\ fs'[TheLink] = fs[TheLink]
                     /\ fs'[MyFile(q)] = fs[MyFile(q)]
         /\ C8_FailingInit(p) => (pidpc[p] = "off" /\ pidpc'[p] \in {"off", "dead"})
         /\ (pidpc'[p] # pidpc[p] /\ pidpc'[p] \in {"create", "write", "done"})
               => locks[p] # {}
         /\ (fs'[ThePidFile] # fs[ThePidFile] /\ pidpc'[p] # pidpc[p])
               => locks[p] # {}]_vars

\* C8 witness: a second instance has failed to acquire, is about to call
\* os.Exit(1) and has no PID-file goroutine, while another process holds the
\* lock with both its files in place.
C8_Witness ==
    \E p \in Procs, q \in Procs :
        /\ p # q
        /\ C8_FailingInit(p)
        /\ ctx[p]["main"].pc = "x_exit"
        /\ ctx[p]["main"].code = 1
        /\ pidpc[p] = "off"
        /\ holds[q]
        /\ fs[TheLink] = Inode(q)
        /\ fs[MyFile(q)] = Inode(q)

\* C9: every os.Exit is the last step of one Exit call that flushed the log
\* first, then ran the chain it read to the end, every handler of it having
\* returned; the process ends with the code that call was given, which is 1
\* for Error and StandardError, after the error was recorded.
C9_ChainRunBy(p, c) ==
    /\ ctx[p][c].flushed
    /\ ctx[p][c].i = Len(ctx[p][c].snap) + 1
    /\ \A j \in 1..Len(ctx[p][c].snap) : j \in Elems(finished[p])

C9_SinglePath ==
    /\ [](\A p \in Procs, c \in Ctxs :
            /\ ctx[p][c].pc \in {"x_call", "x_rel", "x_exit"} => ctx[p][c].flushed
            /\ ctx[p][c].pc = "x_exit" => C9_ChainRunBy(p, c)
            /\ ctx[p][c].via \in {"Error", "StandardError"}
                  => (ctx[p][c].code = 1 /\ logs[p].recorded))
    /\ [][\A p \in Procs :
            (Ends(p) /\ status'[p] = "exited") =>
                \E c \in Ctxs :
                    /\ ctx[p][c].pc = "x_exit"
                    /\ exitCode'[p] = ctx[p][c].code]_vars

\* C9 witness: Error is about to call os.Exit(1), the error recorded and
\* flushed, after running a chain of two handlers.
C9_Witness ==
    \E p \in Procs :
        /\ ctx[p]["main"].pc = "x_exit"
        /\ ctx[p]["main"].via = "Error"
        /\ Len(ctx[p]["main"].snap) = 2
        /\ logs[p] = [recorded |-> TRUE, pending |-> FALSE]

\* C10: GetCPUCount returns at least 1 whatever the platform and whatever
\* the introspection command did, and returns n when the sysctl command
\* prints the positive integer n.
C10_CountAtLeastOne ==
    cpu.done =>
        /\ cpu.count >= 1
        /\ LET r == Atoi(TrimSpace(cpu.output))
           IN  (cpu.platform \in {"darwin", "freebsd"} /\ ~cpu.err /\ ~r.err
                   /\ r.val > 0) => cpu.count = r.val

\* C11: a call of GetOutput in which no system call fails, on a child that
\* writes a finite output and then exits, returns that output with no
\* error, and until it has returned it is never stuck: some step of the
\* call or of the child is possible.
C11_ReturnsCompleteOutput ==
    (~cmd.pipeFails /\ ~cmd.spawnFails /\ ~cmd.waitFails /\ ~cmd.readFails) =>
        /\ cmd.pc = "done" =>
              (cmd.err = NilError /\ cmd.output = ChildOutput(cmd.size))
        /\ cmd.pc # "done" => ENABLED NextOutput

\* C17: when GetOutput has returned after a failure (of os.Pipe,
\* os.StartProcess, process.Wait or a read of the pipe) its output is empty
\* and its error is the CommandError of args[0] and args; and whenever it
\* has returned after the pipe was created, both ends of the pipe are
\* closed.
C17_FailuresCollapse ==
    cmd.pc = "done" =>
        /\ cmd.failed # "none" =>
              /\ cmd.output = <<>>
              /\ cmd.err = CommandError(cmd.args[1], cmd.args)
        /\ cmd.created => (~cmd.rOpen /\ ~cmd.wOpen)

\* C17 witness: GetOutput has returned the error after a read of the pipe
\* failed, some of the child's output being already in the buffer.
C17_Witness ==
    /\ cmd.pc = "done"
    /\ cmd.failed = "read"
    /\ cmd.buffer # <<>>
    /\ cmd.created

\* C12: the chain is consumed by its first run.  Over calls of
\* RunExitHandlers and Exit made one after the other by one context, a step
\* that invokes a handler never invokes one that was invoked before.
C12_ConsumedByFirstRun ==
    [][\A p \in Procs :
         Len(started'[p]) > Len(started[p])
             => started'[p][Len(started'[p])] \notin Elems(started[p])]_vars

\* C13: the chain and the table are protected against concurrent access.
\* A store of append into exitHandlers extends the chain as it is at that
\* moment by one handler (no registration is lost); the chain is read by
\* the loop of RunExitHandlers only while no other context is between the
\* read and the store of an append; and the dispatcher looks a handler up
\* only while no write of the table is in progress.
C13_StoreStep(p, c) ==
    /\ ctx[p][c].pc \in StorePcs
    /\ ctx'[p][c].pc \notin StorePcs
    /\ status'[p] = "running"

C13_ChainAndTableProtected ==
    [][\A p \in Procs :
         /\ \A c \in Ctxs :
               C13_StoreStep(p, c) =>
                   /\ Len(exitHandlers'[p]) = Len(exitHandlers[p]) + 1
                   /\ SubSeq(exitHandlers'[p], 1, Len(exitHandlers[p])) = exitHandlers[p]
         /\ \A c \in Ctxs :
               (ctx[p][c].pc = "x_range" /\ ctx'[p][c].pc # "x_range")
                   => \A d \in Ctxs \ {c} : ctx[p][d].pc \notin StorePcs
         /\ (ctx[p]["disp"].pc = "recv" /\ notifier'[p] # notifier[p]
                 /\ Len(notifier'[p]) < Len(notifier[p]))
                   => ctx[p]["main"].pc # "sh_write"]_vars

\* C14: a failed acquire changes nothing but the PID-qualified file of the
\* failing call.  The step that ends a failed GetLock leaves the chain and
\* the Locks of its process as they are, leaves every path but its own
\* PID-qualified file as it is, and leaves the PID-qualified file of every
\* process that holds the lock in place, the calling process included.
C14_FailedStep(p) ==
    /\ ctx[p]["main"].pc = "gl_remove"
    /\ MainMoves(p)

C14_FailedAcquireFrame ==
    [][\A p \in Procs :
         C14_FailedStep(p) =>
             /\ exitHandlers'[p] = exitHandlers[p]
             /\ locks'[p] = locks[p]
             /\ \A path \in Paths \ {MyFile(p)} : fs'[path] = fs[path]
             /\ \A q \in Holders : fs'[MyFile(q)] = fs[MyFile(q)]]_vars

\* C15: a signal without a handler is absorbed.  When the dispatcher takes
\* a signal that has no entry in the table, the process keeps running, no
\* exit handler is invoked, the files, the chain and the table are as
\* before, and the dispatcher is ready to receive the next signal.
C15_TakesUnhandled(p) ==
    /\ ctx[p]["disp"].pc = "recv"
    /\ notifier[p] # <<>>
    /\ Head(notifier[p]) \notin DOMAIN SignalHandlers[p]
    /\ notifier'[p] = Tail(notifier[p]) \/ status'[p] # "running"

C15_UnhandledAbsorbed ==
    [][\A p \in Procs :
         C15_TakesUnhandled(p) =>
             /\ status'[p] = "running"
             /\ started'[p] = started[p]
             /\ finished'[p] = finished[p]
             /\ fs' = fs
             /\ exitHandlers'[p] = exitHandlers[p]
             /\ SignalHandlers'[p] = SignalHandlers[p]
             /\ ctx'[p]["disp"].pc = "recv"]_vars

\* C16: the dispatcher handles signals one at a time in delivery order.  A
\* delivered signal is put behind the pending ones; the dispatcher takes
\* the oldest pending signal, and the handler it calls is that signal's;
\* and while a handler it called has not returned it takes no signal.
C16_Takes(p) ==
    /\ status'[p] = "running"
    /\ Len(notifier'[p]) < Len(notifier[p])

C16_OneAtATimeInOrder ==
    [][\A p \in Procs :
         /\ (status'[p] = "running" /\ Len(notifier'[p]) > Len(notifier[p]))
               => \E sig \in Signals : notifier'[p] = Append(notifier[p], sig)
         /\ C16_Takes(p) =>
               /\ ctx[p]["disp"].pc = "recv"
               /\ notifier'[p] = Tail(notifier[p])
               /\ Head(notifier[p]) \in DOMAIN SignalHandlers[p]
                     => /\ ctx'[p]["disp"].pc # "recv"
                        /\ ctx'[p]["disp"].op = Head(notifier[p])]_vars

\* C16 witness: the handler the application installed for SIGHUP is running
\* on the dispatcher (inside RegisterExitHandler) while a termination signal
\* that was delivered after SIGHUP is pending.
C16_Witness ==
    \E p \in Procs :
        /\ ctx[p]["disp"].pc = "reg"
        /\ ctx[p]["disp"].op = SIGHUP
        /\ notifier[p] = <<SIGTERM>>

\* C18: with signals as the only termination trigger, Exit is entered at
\* most once and no handler is invoked twice, however many termination
\* signals are delivered; and a process that ends through os.Exit has run
\* the chain once, to its end.
C18_SignalsRunChainOnce ==
    /\ [](\A p \in Procs :
            /\ triggers[p] <= 1
            /\ \A j \in 1..Len(started[p]) : Occurrences(started[p], started[p][j]) = 1)
    /\ [][\A p \in Procs :
            (Ends(p) /\ status'[p] = "exited") =>
                /\ triggers[p] = 1
                /\ ctx[p]["disp"].i = Len(ctx[p]["disp"].snap) + 1
                /\ finished[p] = UpTo(Len(ctx[p]["disp"].snap))]_vars

\* C18 witness: the default handler's Exit is running the chain, a handler
\* has been invoked, and a second termination signal is pending.
C18_Witness ==
    \E p \in Procs :
        /\ InExit(p, "disp")
        /\ started[p] # <<>>
        /\ notifier[p] # <<>>
        /\ Head(notifier[p]) \in {SIGINT, SIGTERM}

\* C19: at most 100 signals are pending; a signal sent while 100 are
\* pending is dropped, the pending ones staying as they are, and any other
\* signal sent is put behind the pending ones.
C19_AtMost100Pending ==
    /\ [](\A p \in Procs : Len(notifier[p]) <= 100)
    /\ [][\A p \in Procs :
            nsig'[p] = nsig[p] + 1 =>
                IF Len(notifier[p]) = 100
                THEN notifier'[p] = notifier[p]
                ELSE \E sig \in Signals : notifier'[p] = Append(notifier[p], sig)]_vars

\* C19 witness: 100 signals are pending, the oldest a termination signal,
\* and one more has been sent.
C19_Witness ==
    \E p \in Procs :
        /\ Len(notifier[p]) = 100
        /\ Head(notifier[p]) = SIGTERM
        /\ nsig[p] = 101

\* C20: a Lock whose stable link was created by its process and has not been
\* released has acquired = true.
C20_AcquiredReflectsState ==
    \A p \in Procs : \A lock \in locks[p] :
        (holds[p] /\ fs[lock.link] = Inode(p)) => lock.acquired

====
